---- MODULE Spec2Model ----
(***************************************************************************)
(* Model of src/app/api.py: a FastAPI service over the module-level dict   *)
(* `students`.  Strings are sequences of one-character strings so that     *)
(* str.lower() and the `in` substring test are computed, not assumed.      *)
(* A stored value is either one of the seed dict literals (kind "dict")    *)
(* or the pydantic Student object a handler stored (kind "Student").       *)
(***************************************************************************)
EXTENDS Integers, Sequences, FiniteSets, TLC

VARIABLES students, request, response, pc, call, it_pos, it_used, results, reply

vars == <<students, request, response, pc, call, it_pos, it_used, results, reply>>

seqVars == <<students, request, response>>
thrVars == <<pc, call, it_pos, it_used, results, reply>>

----------------------------------------------------------------------------
(* Bounds of the model *)

MaxId == 4
NumThreads == 2

Ids == 1..MaxId
Threads == 1..NumThreads

----------------------------------------------------------------------------
(* Strings *)

Alice == <<"A", "l", "i", "c", "e">>
Bob == <<"B", "o", "b">>
Charlie == <<"C", "h", "a", "r", "l", "i", "e">>
Dana == <<"D", "a", "n", "a">>
BOBBY == <<"B", "O", "B", "B", "Y">>

EmptyStr == <<>>

UpperToLower ==
    [c \in {"A", "B", "C", "D", "L", "O", "Y", "Z"} |->
        CASE c = "A" -> "a" [] c = "B" -> "b" [] c = "C" -> "c"
          [] c = "D" -> "d" [] c = "L" -> "l" [] c = "O" -> "o"
          [] c = "Y" -> "y" [] c = "Z" -> "z"]

\* str.lower()
lower(s) ==
    [i \in 1..Len(s) |-> IF s[i] \in DOMAIN UpperToLower THEN UpperToLower[s[i]] ELSE s[i]]

\* the str `in` operator: a in b
str_in(a, b) ==
    \E i \in 0..Len(b) : i + Len(a) <= Len(b) /\ SubSeq(b, i + 1, i + Len(a)) = a

----------------------------------------------------------------------------
(* Values *)

\* a dict literal {"name": ..., "age": ...}
DictValue(n, a) == [kind |-> "dict", name |-> n, age |-> a]

\* an instance of class Student(BaseModel)
Student(n, a) == [kind |-> "Student", name |-> n, age |-> a]

NoStudent == [kind |-> "none", name |-> EmptyStr, age |-> 0]

\* request bodies the model sends
Bodies == {Student(Dana, 19), Student(Dana, 22), Student(BOBBY, 22)}

\* values of the query parameter `name` that are given; None is given = FALSE
QueryNames == {EmptyStr, <<"b", "o", "b">>, <<"z", "z", "z">>, <<"L", "i">>, <<"A">>}

----------------------------------------------------------------------------
(* The dict `students`: a sequence of entries in insertion order *)

Seed ==
    << [key |-> 1, value |-> DictValue(Alice, 20)],
       [key |-> 2, value |-> DictValue(Bob, 22)],
       [key |-> 3, value |-> DictValue(Charlie, 23)] >>

\* dict.keys() as a set
Keys(d) == {d[i].key : i \in 1..Len(d)}

\* key in d
Contains(d, k) == \E i \in 1..Len(d) : d[i].key = k

\* d[k]
GetItem(d, k) == d[CHOOSE i \in 1..Len(d) : d[i].key = k].value

\* d[k] = v : replaces in place, or appends a new entry
SetItem(d, k, v) ==
    IF Contains(d, k)
    THEN [i \in 1..Len(d) |-> IF d[i].key = k THEN [key |-> k, value |-> v] ELSE d[i]]
    ELSE Append(d, [key |-> k, value |-> v])

\* list(d.values())
Values(d) == [i \in 1..Len(d) |-> d[i].value]

\* student["name"] is defined on a dict only; a BaseModel has no __getitem__
Subscriptable(v) == v.kind = "dict"

----------------------------------------------------------------------------
(* Responses *)

NoResponse == [key |-> "none", message |-> "", name |-> EmptyStr, list |-> <<>>, student |-> NoStudent]

HelloResponse == [NoResponse EXCEPT !.key = "message", !.message = "Hello, World!"]

ResultsResponse(l) == [NoResponse EXCEPT !.key = "results", !.list = l]

StudentsResponse(l) == [NoResponse EXCEPT !.key = "students", !.list = l]

NoMatchResponse(n) ==
    [NoResponse EXCEPT !.key = "error", !.message = "No students found with that name: ", !.name = n]

ExistsResponse == [NoResponse EXCEPT !.key = "error", !.message = "Student ID already exists"]

NotFoundResponse == [NoResponse EXCEPT !.key = "error", !.message = "Student not found"]

CreatedResponse(s) ==
    [NoResponse EXCEPT !.key = "message", !.message = "Student created successfully", !.student = s]

UpdatedResponse(s) ==
    [NoResponse EXCEPT !.key = "message", !.message = "Student updated successfully", !.student = s]

\* the handler raised; nothing in the module catches it
Unhandled(e) == [NoResponse EXCEPT !.key = "unhandled", !.message = e]

----------------------------------------------------------------------------
(* Requests *)

NoRequest == [op |-> "none", given |-> FALSE, name |-> EmptyStr, student_id |-> 0, student |-> NoStudent]

IndexRequest == [NoRequest EXCEPT !.op = "index"]

SearchRequest(given, name) == [NoRequest EXCEPT !.op = "search", !.given = given, !.name = name]

CreateRequest(id, s) == [NoRequest EXCEPT !.op = "create", !.student_id = id, !.student = s]

UpdateRequest(id, s) == [NoRequest EXCEPT !.op = "update", !.student_id = id, !.student = s]

\* `if name:` is false for None and for ""
Truthy(given, name) == given /\ name # EmptyStr

----------------------------------------------------------------------------
(* Handlers as functions of the dict *)

\* the comprehension of line 35 over the first n values
RECURSIVE Comprehension(_, _, _)
Comprehension(vals, name, n) ==
    IF n = 0 THEN <<>>
    ELSE LET rest == Comprehension(vals, name, n - 1)
         IN IF str_in(lower(name), lower(vals[n].name)) THEN Append(rest, vals[n]) ELSE rest

\* variant: the test of line 34 written `if name is not None:`
SearchResult_is_not_None(d, given, name) ==
    IF given
    THEN IF \E i \in 1..Len(d) : ~Subscriptable(d[i].value)
         THEN Unhandled("TypeError")
         ELSE LET res == Comprehension(Values(d), name, Len(d))
              IN IF res # <<>> THEN ResultsResponse(res) ELSE NoMatchResponse(name)
    ELSE StudentsResponse(Values(d))

SearchResult(d, given, name) ==
    IF Truthy(given, name)
    THEN IF \E i \in 1..Len(d) : ~Subscriptable(d[i].value)
         THEN Unhandled("TypeError")
         ELSE LET res == Comprehension(Values(d), name, Len(d))
              IN IF res # <<>> THEN ResultsResponse(res) ELSE NoMatchResponse(name)
    ELSE StudentsResponse(Values(d))

----------------------------------------------------------------------------
(* Sequential service: one request handled at a time *)

Init ==
    /\ students = Seed
    /\ request = NoRequest
    /\ response = NoResponse
    /\ pc = [t \in Threads |-> "idle"]
    /\ call = [t \in Threads |-> NoRequest]
    /\ it_pos = [t \in Threads |-> 0]
    /\ it_used = [t \in Threads |-> 0]
    /\ results = [t \in Threads |-> <<>>]
    /\ reply = [t \in Threads |-> NoResponse]

index ==
    /\ request' = IndexRequest
    /\ response' = HelloResponse
    /\ UNCHANGED <<students, thrVars>>

search_students(given, name) ==
    /\ request' = SearchRequest(given, name)
    /\ response' = SearchResult(students, given, name)
    /\ UNCHANGED <<students, thrVars>>

\* variant: the test of line 43 inverted
create_student_inverted(student_id, student) ==
    /\ request' = CreateRequest(student_id, student)
    /\ IF ~Contains(students, student_id)
       THEN /\ response' = ExistsResponse
            /\ UNCHANGED students
       ELSE /\ students' = SetItem(students, student_id, student)
            /\ response' = CreatedResponse(GetItem(students', student_id))
    /\ UNCHANGED thrVars

\* variant: lines 43-44 missing, the store is unconditional
create_student_overwrite(student_id, student) ==
    /\ request' = CreateRequest(student_id, student)
    /\ students' = SetItem(students, student_id, student)
    /\ response' = CreatedResponse(GetItem(students', student_id))
    /\ UNCHANGED thrVars

create_student(student_id, student) ==
    /\ request' = CreateRequest(student_id, student)
    /\ IF Contains(students, student_id)
       THEN /\ response' = ExistsResponse
            /\ UNCHANGED students
       ELSE /\ students' = SetItem(students, student_id, student)
            /\ response' = CreatedResponse(GetItem(students', student_id))
    /\ UNCHANGED thrVars

\* variant: line 56 replaces the name only and keeps the stored age
update_student_merge(student_id, student) ==
    /\ request' = UpdateRequest(student_id, student)
    /\ IF ~Contains(students, student_id)
       THEN /\ response' = NotFoundResponse
            /\ UNCHANGED students
       ELSE /\ students' = SetItem(students, student_id,
                    [GetItem(students, student_id) EXCEPT !.name = student.name])
            /\ response' = UpdatedResponse(student)
    /\ UNCHANGED thrVars

\* variant: lines 54-55 missing, the store is unconditional
update_student_upsert(student_id, student) ==
    /\ request' = UpdateRequest(student_id, student)
    /\ students' = SetItem(students, student_id, student)
    /\ response' = UpdatedResponse(GetItem(students', student_id))
    /\ UNCHANGED thrVars

update_student(student_id, student) ==
    /\ request' = UpdateRequest(student_id, student)
    /\ IF ~Contains(students, student_id)
       THEN /\ response' = NotFoundResponse
            /\ UNCHANGED students
       ELSE /\ students' = SetItem(students, student_id, student)
            /\ response' = UpdatedResponse(GetItem(students', student_id))
    /\ UNCHANGED thrVars

SearchAny == \E given \in BOOLEAN : \E name \in QueryNames :
    (given \/ name = EmptyStr) /\ search_students(given, name)

CreateAny == \E id \in Ids : \E s \in Bodies : create_student(id, s)

UpdateAny == \E id \in Ids : \E s \in Bodies : update_student(id, s)

Next == index \/ SearchAny \/ CreateAny \/ UpdateAny

Spec == Init /\ [][Next]_vars

----------------------------------------------------------------------------
(* Concurrent service: the handlers are plain `def` functions, which the   *)
(* framework runs on worker threads.  Each thread executes its handler one *)
(* statement at a time; another thread may run between any two of them.    *)

ConcIds == {MaxId - 1, MaxId}

ConcBodies == {Student(Dana, 19), Student(BOBBY, 22)}

ConcQueries == {EmptyStr, <<"b", "o", "b">>, <<"z", "z", "z">>}

ConcRequests ==
    {SearchRequest(TRUE, n) : n \in ConcQueries}
        \cup {CreateRequest(id, s) : id \in ConcIds, s \in ConcBodies}
        \cup {UpdateRequest(id, s) : id \in ConcIds, s \in ConcBodies}

Entry(op) ==
    CASE op = "search" -> "search_if_name"
      [] op = "create" -> "create_check"
      [] op = "update" -> "update_check"

Finish(t, r) ==
    /\ reply' = [reply EXCEPT ![t] = r]
    /\ pc' = [pc EXCEPT ![t] = "done"]

\* the framework hands a request to a free worker thread
Dispatch(t) ==
    /\ pc[t] \in {"idle", "done"}
    /\ \E r \in ConcRequests :
          /\ call' = [call EXCEPT ![t] = r]
          /\ pc' = [pc EXCEPT ![t] = Entry(r.op)]
    /\ reply' = [reply EXCEPT ![t] = NoResponse]
    /\ it_pos' = [it_pos EXCEPT ![t] = 0]
    /\ it_used' = [it_used EXCEPT ![t] = 0]
    /\ results' = [results EXCEPT ![t] = <<>>]
    /\ UNCHANGED seqVars

\* line 34, and line 39 or the creation of the values iterator of line 35
search_if_name(t) ==
    /\ pc[t] = "search_if_name"
    /\ IF Truthy(call[t].given, call[t].name)
       THEN /\ it_used' = [it_used EXCEPT ![t] = Len(students)]
            /\ pc' = [pc EXCEPT ![t] = "search_iter"]
            /\ UNCHANGED reply
       ELSE /\ Finish(t, StudentsResponse(Values(students)))
            /\ UNCHANGED it_used
    /\ UNCHANGED <<seqVars, call, it_pos, results>>

\* one round of the comprehension of line 35, then lines 36-38 when it ends
search_iter(t) ==
    /\ pc[t] = "search_iter"
    /\ IF it_used[t] # Len(students)
       THEN /\ Finish(t, Unhandled("RuntimeError"))
            /\ UNCHANGED <<it_pos, results>>
       ELSE IF it_pos[t] = Len(students)
       THEN /\ Finish(t, IF results[t] # <<>> THEN ResultsResponse(results[t])
                                              ELSE NoMatchResponse(call[t].name))
            /\ UNCHANGED <<it_pos, results>>
       ELSE LET student == students[it_pos[t] + 1].value
            IN IF ~Subscriptable(student)
               THEN /\ Finish(t, Unhandled("TypeError"))
                    /\ UNCHANGED <<it_pos, results>>
               ELSE /\ it_pos' = [it_pos EXCEPT ![t] = @ + 1]
                    /\ results' = [results EXCEPT ![t] =
                          IF str_in(lower(call[t].name), lower(student.name))
                          THEN Append(@, student) ELSE @]
                    /\ UNCHANGED <<pc, reply>>
    /\ UNCHANGED <<seqVars, call, it_used>>

\* lines 43-44
create_check(t) ==
    /\ pc[t] = "create_check"
    /\ IF Contains(students, call[t].student_id)
       THEN Finish(t, ExistsResponse)
       ELSE /\ pc' = [pc EXCEPT ![t] = "create_store"]
            /\ UNCHANGED reply
    /\ UNCHANGED <<seqVars, call, it_pos, it_used, results>>

\* line 45
create_store(t) ==
    /\ pc[t] = "create_store"
    /\ students' = SetItem(students, call[t].student_id, call[t].student)
    /\ pc' = [pc EXCEPT ![t] = "create_return"]
    /\ UNCHANGED <<request, response, call, it_pos, it_used, results, reply>>

\* lines 46-49
create_return(t) ==
    /\ pc[t] = "create_return"
    /\ Finish(t, CreatedResponse(GetItem(students, call[t].student_id)))
    /\ UNCHANGED <<seqVars, call, it_pos, it_used, results>>

\* lines 54-55
update_check(t) ==
    /\ pc[t] = "update_check"
    /\ IF ~Contains(students, call[t].student_id)
       THEN Finish(t, NotFoundResponse)
       ELSE /\ pc' = [pc EXCEPT ![t] = "update_store"]
            /\ UNCHANGED reply
    /\ UNCHANGED <<seqVars, call, it_pos, it_used, results>>

\* line 56
update_store(t) ==
    /\ pc[t] = "update_store"
    /\ students' = SetItem(students, call[t].student_id, call[t].student)
    /\ pc' = [pc EXCEPT ![t] = "update_return"]
    /\ UNCHANGED <<request, response, call, it_pos, it_used, results, reply>>

\* lines 57-60
update_return(t) ==
    /\ pc[t] = "update_return"
    /\ Finish(t, UpdatedResponse(GetItem(students, call[t].student_id)))
    /\ UNCHANGED <<seqVars, call, it_pos, it_used, results>>

NextConc ==
    \E t \in Threads :
        \/ Dispatch(t)
        \/ search_if_name(t)
        \/ search_iter(t)
        \/ create_check(t)
        \/ create_store(t)
        \/ create_return(t)
        \/ update_check(t)
        \/ update_store(t)
        \/ update_return(t)

SpecConc == Init /\ [][NextConc]_vars

----------------------------------------------------------------------------
(* Properties *)

\* the records whose name contains `name` case-insensitively, in listing order
Matching(d, name) == Comprehension(Values(d), name, Len(d))

FilteredSearch == request.op = "search" /\ Truthy(request.given, request.name)

\* C1: in every reachable store state a search with a non-empty name that
\* matches at least one record returns under "results" exactly the matching
\* records, in listing order.
SearchReturnsMatches ==
    (FilteredSearch /\ Matching(students, request.name) # <<>>)
        => response = ResultsResponse(Matching(students, request.name))

\* C2: nothing is fatal: every request ends in its success response or in a
\* response carrying an "error" field, never in an unhandled failure.
NothingIsFatal == response.key \in {"none", "message", "results", "students", "error"}

\* C3: create_student on an absent id returns the success response carrying
\* the body, the store then maps the id to it, the listing contains it and
\* every entry stored before is unchanged.
CreateAbsentInserts ==
    [][(request'.op = "create" /\ ~Contains(students, request'.student_id)) =>
          /\ response' = CreatedResponse(request'.student)
          /\ Contains(students', request'.student_id)
          /\ GetItem(students', request'.student_id) = request'.student
          /\ \E i \in 1..Len(students') : Values(students')[i] = request'.student
          /\ Len(students') = Len(students) + 1
          /\ \A k \in Keys(students) : GetItem(students', k) = GetItem(students, k)]_vars

CreateAbsentInsertsWitness ==
    /\ request.op = "create"
    /\ response = CreatedResponse(request.student)
    /\ GetItem(students, request.student_id) = request.student
    /\ Len(students) > Len(Seed)

\* C4: create_student on a present id (seed ids included) returns the error
\* "Student ID already exists" and leaves the whole store unchanged.
CreatePresentRejected ==
    [][(request'.op = "create" /\ Contains(students, request'.student_id)) =>
          /\ response' = ExistsResponse
          /\ students' = students]_vars

CreatePresentRejectedWitness ==
    /\ request.op = "create"
    /\ request.student_id = 1
    /\ response = ExistsResponse
    /\ Len(students) > Len(Seed)

\* C5: update_student on a present id returns the success response carrying
\* the body and the store maps the id to exactly the body; the ids, their
\* order and every other entry are unchanged.
UpdatePresentReplaces ==
    [][(request'.op = "update" /\ Contains(students, request'.student_id)) =>
          /\ response' = UpdatedResponse(request'.student)
          /\ GetItem(students', request'.student_id) = request'.student
          /\ Len(students') = Len(students)
          /\ \A i \in 1..Len(students) : students'[i].key = students[i].key
          /\ \A k \in Keys(students) \ {request'.student_id} :
                GetItem(students', k) = GetItem(students, k)]_vars

UpdatePresentReplacesWitness ==
    /\ request.op = "update"
    /\ request.student_id = 2
    /\ response = UpdatedResponse(request.student)
    /\ GetItem(students, 2) = Student(Dana, 19)

\* C6: update_student on an absent id returns the error "Student not found"
\* and mutates nothing.
UpdateAbsentRejected ==
    [][(request'.op = "update" /\ ~Contains(students, request'.student_id)) =>
          /\ response' = NotFoundResponse
          /\ students' = students]_vars

UpdateAbsentRejectedWitness ==
    /\ request.op = "update"
    /\ response = NotFoundResponse
    /\ ~Contains(students, request.student_id)

\* C7: in every reachable store state a search with a non-empty name that no
\* record matches returns the error "No students found with that name: <name>".
NoMatchIsError ==
    (FilteredSearch /\ Matching(students, request.name) = <<>>)
        => response = NoMatchResponse(request.name)

UnfilteredSearch == request.op = "search" /\ ~Truthy(request.given, request.name)

\* C8: a search with the name omitted or empty returns under "students" the
\* full sequence of stored records in enumeration order, and two such calls
\* with no write in between return the same sequence.
NoFilterListing ==
    /\ [](UnfilteredSearch => response = StudentsResponse(Values(students)))
    /\ [][(UnfilteredSearch /\ UnfilteredSearch') => response'.list = response.list]_vars

NoFilterListingWitness ==
    /\ request = SearchRequest(TRUE, EmptyStr)
    /\ response.key = "students"
    /\ Len(response.list) = MaxId
    /\ response.list[2] = Student(BOBBY, 22)

\* C9: entries are never deleted: the seed ids stay, the set of ids only
\* grows, only a successful create_student adds an id, exactly one per call,
\* and search_students and update_student never change the set of ids.
NeverDeleted ==
    /\ [](Keys(Seed) \subseteq Keys(students) /\ Cardinality(Keys(students)) = Len(students))
    /\ [][/\ Keys(students) \subseteq Keys(students')
          /\ Keys(students') # Keys(students) =>
                /\ request'.op = "create"
                /\ response' = CreatedResponse(request'.student)
                /\ Keys(students') \ Keys(students) = {request'.student_id}
          /\ request'.op \in {"search", "update"} => Keys(students') = Keys(students)]_vars

NeverDeletedWitness ==
    /\ request.op = "update"
    /\ response = UpdatedResponse(request.student)
    /\ Keys(students) = Ids

CreatedBy(t, id) ==
    /\ pc[t] = "done"
    /\ call[t].op = "create"
    /\ call[t].student_id = id
    /\ reply[t].message = "Student created successfully"

\* C10: every operation is atomic under concurrent dispatch: of two
\* create_student requests for the same absent id at most one returns
\* success, the record it stored is not overwritten by the other, and a
\* search_students scan never observes the mapping changing under it.
OperationsAreAtomic ==
    /\ \A t1, t2 \in Threads : \A id \in ConcIds :
          (t1 # t2 /\ CreatedBy(t1, id)) => ~CreatedBy(t2, id)
    /\ \A t \in Threads :
          pc[t] = "create_store" => ~Contains(students, call[t].student_id)
    /\ \A t \in Threads :
          pc[t] = "search_iter" => it_used[t] = Len(students)

====
